---- MODULE Spec2Model ----
(***************************************************************************)
(* BIP32 path-tracked key derivation (bip32/src/derived.rs).               *)
(*                                                                         *)
(* The curve backend, HMAC-SHA512, the fingerprint hash, the inner         *)
(* extended-key derivation step and the derivation-path type live outside  *)
(* derived.rs; they are modelled from their documented contracts over a    *)
(* scaled-down domain: a byte is a digit 0..ByteBase-1, a 32-byte array is *)
(* a big-endian pair of digits, the curve is the cyclic group of order     *)
(* GroupOrder (a point is kept as a multiple of the generator), and a u32  *)
(* index has IndexBits bits, the top one being the hardened flag.          *)
(***************************************************************************)
EXTENDS Integers, Sequences, FiniteSets, TLC

VARIABLES root, priv, pbase, pub, calls, pcalls, last

vars == <<root, priv, pbase, pub, calls, pcalls, last>>

(* ------------------------------ bounds -------------------------------- *)

\* digits per model byte
ByteBase == 4
\* order of the model group
GroupOrder == 13
\* width of a model child index; the top bit is the hardened flag
IndexBits == 3
\* seeds range over lengths MinSeedLen - SeedSlack .. MinSeedLen + SeedSlack
SeedSlack == 2
\* longest derivation path explored by Spec
MaxPathLen == 2

(* ----------------------------- constants ------------------------------ *)

\* `data.len() < 16`
MinSeedLen == 16
\* `KeyFingerprint([0u8; 4])`
FingerprintLen == 4

(* ------------------------------ results ------------------------------- *)

NoVal == [none |-> TRUE]

Ok(v) == [ok |-> TRUE, val |-> v, err |-> "none"]

Err(e) == [ok |-> FALSE, val |-> NoVal, err |-> e]

(* --------------------------- byte arrays ------------------------------ *)

Bytes == 0 .. (ByteBase - 1)

KeySpace == ByteBase * ByteBase

\* a key array <<hi, lo>>, big-endian
ToArray(n) == <<(n \div ByteBase) % ByteBase, n % ByteBase>>

FromArray(a) == a[1] * ByteBase + a[2]

\* `[0u8; 32]`
ZeroKey == <<0, 0>>

\* `a > b` on arrays: lexicographic order on the bytes
ArrayGt(a, b) == a[1] > b[1] \/ (a[1] = b[1] /\ a[2] > b[2])

CURVE_ORDER == ToArray(GroupOrder)

\* the BIP32-standard HMAC key
SEED == <<1, 2, 3>>

Zeros(n) == [i \in 1 .. n |-> 0]

(* ---------------------- HMAC and the curve backend -------------------- *)

Mix(h, b) == (h * 61 + b + 3) % 911

RECURSIVE Absorb(_, _)
Absorb(h, s) == IF s = <<>> THEN h ELSE Absorb(Mix(h, Head(s)), Tail(s))

\* keyed digest, split into the candidate key (first half) and the chain
\* code (second half)
hmac_and_split(key, data) ==
    LET a == Absorb(Mix(Absorb(17, key), Len(key)), data)
        d == (a * a + 3 * a + 5) % 911
    IN  [key |-> ToArray(d % KeySpace),
         chain_code |-> <<(d \div KeySpace) % ByteBase>>]

\* the backend's scalar constructor: rejects zero and out-of-range scalars
\* with its own error
from_privkey_array(key) ==
    IF FromArray(key) = 0 \/ FromArray(key) >= GroupOrder
    THEN Err("BackendError")
    ELSE Ok(FromArray(key))

(* -------------------------- master node ------------------------------- *)

Hints == {"Legacy", "Compatibility", "SegWit"}

NoHint == "None"

unwrap_or_Legacy(hint) == IF hint = NoHint THEN "Legacy" ELSE hint

\* `hint.unwrap_or(Hint::SegWit)`
unwrap_or_SegWit(hint) == IF hint = NoHint THEN "SegWit" ELSE hint

\* lines 67-85: everything after the seed-length check
master_node_tail(hmac_key, data, hint) ==
    LET parent == Zeros(FingerprintLen)
        hs == hmac_and_split(hmac_key, data)
    IN  IF hs.key = ZeroKey \/ ArrayGt(hs.key, CURVE_ORDER)
        THEN Err("InvalidKey")
        ELSE LET privkey == from_privkey_array(hs.key)
             IN  IF ~privkey.ok
                 THEN Err(privkey.err)
                 ELSE Ok([info |-> [depth |-> 0,
                                    parent |-> parent,
                                    index |-> 0,
                                    chain_code |-> hs.chain_code,
                                    hint |-> unwrap_or_SegWit(hint)],
                          privkey |-> privkey.val])

custom_master_node_inclusive(hmac_key, data, hint) ==
    IF Len(data) <= MinSeedLen
    THEN Err("SeedTooShort")
    ELSE master_node_tail(hmac_key, data, hint)

custom_master_node(hmac_key, data, hint) ==
    IF Len(data) < MinSeedLen
    THEN Err("SeedTooShort")
    ELSE master_node_tail(hmac_key, data, hint)

root_from_seed(data, hint) == custom_master_node(SEED, data, hint)

(* ------------------- extended keys: one derivation step ---------------- *)

\* the hardened flag of a child index
BIP32_HARDEN == 2 ^ (IndexBits - 1)

\* generator of the model group
G == 5

\* scalar -> point
derive_pubkey(privkey) == (privkey * G) % GroupOrder

\* serialised point, serialised scalar, big-endian index
pubkey_bytes(pubkey) == <<2>> \o ToArray(pubkey)

privkey_bytes(privkey) == ToArray(privkey)

index_bytes(index) == ToArray(index)

\* truncated hash of the serialised public key
fingerprint(pubkey) ==
    LET d == Absorb(29, pubkey_bytes(pubkey))
    IN  [i \in 1 .. FingerprintLen |-> (d \div (ByteBase ^ (i - 1))) % ByteBase]

\* the public counterpart of an extended private key
xpriv_derive_verifying_key(xpriv) ==
    Ok([info |-> xpriv.info, pubkey |-> derive_pubkey(xpriv.privkey)])

\* the child's bookkeeping; the paths explored keep the depth far below the
\* end of its one-byte range
child_info(info, parent_pubkey, index, chain_code) ==
    [depth |-> info.depth + 1,
     parent |-> fingerprint(parent_pubkey),
     index |-> index,
     chain_code |-> chain_code,
     hint |-> info.hint]

\* private -> private child of an extended key
xpriv_derive_private_child(xpriv, index) ==
    LET hardened == index >= BIP32_HARDEN
        pubkey == derive_pubkey(xpriv.privkey)
        data == IF hardened
                THEN <<0>> \o privkey_bytes(xpriv.privkey) \o index_bytes(index)
                ELSE pubkey_bytes(pubkey) \o index_bytes(index)
        hs == hmac_and_split(xpriv.info.chain_code, data)
        tweak == FromArray(hs.key)
        child == (tweak + xpriv.privkey) % GroupOrder
    IN  IF tweak >= GroupOrder \/ child = 0 THEN Err("InvalidKey")
        ELSE Ok([info |-> child_info(xpriv.info, pubkey, index, hs.chain_code),
                 privkey |-> child])

\* public -> public child of an extended key; non-hardened indices only
xpub_derive_public_child(xpub, index) ==
    LET data == pubkey_bytes(xpub.pubkey) \o index_bytes(index)
        hs == hmac_and_split(xpub.info.chain_code, data)
        tweak == FromArray(hs.key)
        child == (tweak * G + xpub.pubkey) % GroupOrder
    IN  IF index >= BIP32_HARDEN THEN Err("HardenedDerivationUnsupported")
        ELSE IF tweak >= GroupOrder \/ child = 0 THEN Err("InvalidKey")
        ELSE Ok([info |-> child_info(xpub.info, xpub.pubkey, index, hs.chain_code),
                 pubkey |-> child])

(* --------------------------- derivation paths -------------------------- *)

\* the path with one index appended
extended(path, index) == Append(path, index)

is_possible_ancestor_of(path, other) ==
    /\ Len(path) <= Len(other)
    /\ \A i \in 1 .. Len(path) : path[i] = other[i]

NoPath == [some |-> FALSE, path |-> <<>>]

SomePath(p) == [some |-> TRUE, path |-> p]

\* the indices that lead from `self` to `other`, if `self`'s path is a
\* prefix of `other`'s
path_to_descendant(self, other) ==
    IF is_possible_ancestor_of(self.derivation, other.derivation)
    THEN SomePath(SubSeq(other.derivation, Len(self.derivation) + 1,
                         Len(other.derivation)))
    ELSE NoPath

(* ------------------------ derived keys (derived.rs) -------------------- *)

to_derived_xpub(self) ==
    LET v == xpriv_derive_verifying_key(self.xpriv)
    IN  IF ~v.ok THEN Err(v.err)
        ELSE Ok([xpub |-> v.val, derivation |-> self.derivation])

derive_private_child_prepend(self, index) ==
    LET c == xpriv_derive_private_child(self.xpriv, index)
    IN  IF ~c.ok THEN Err(c.err)
        ELSE Ok([xpriv |-> c.val, derivation |-> <<index>> \o self.derivation])

derive_private_child_keep_path(self, index) ==
    LET c == xpriv_derive_private_child(self.xpriv, index)
    IN  IF ~c.ok THEN Err(c.err)
        ELSE Ok([xpriv |-> c.val, derivation |-> self.derivation])

derive_private_child(self, index) ==
    LET c == xpriv_derive_private_child(self.xpriv, index)
    IN  IF ~c.ok THEN Err(c.err)
        ELSE Ok([xpriv |-> c.val, derivation |-> extended(self.derivation, index)])

derive_public_child_keep_path(self, index) ==
    LET c == xpub_derive_public_child(self.xpub, index)
    IN  IF ~c.ok THEN Err(c.err)
        ELSE Ok([xpub |-> c.val, derivation |-> self.derivation])

derive_public_child_fallback(self, index) ==
    LET c == xpub_derive_public_child(self.xpub, index)
    IN  IF ~c.ok THEN Ok([xpub |-> self.xpub, derivation |-> extended(self.derivation, index)])
        ELSE Ok([xpub |-> c.val, derivation |-> extended(self.derivation, index)])

derive_public_child(self, index) ==
    LET c == xpub_derive_public_child(self.xpub, index)
    IN  IF ~c.ok THEN Err(c.err)
        ELSE Ok([xpub |-> c.val, derivation |-> extended(self.derivation, index)])

\* left-to-right composition of single steps; the first failure is returned
RECURSIVE derive_private_path(_, _)
derive_private_path(self, path) ==
    IF path = <<>> THEN Ok(self)
    ELSE LET c == derive_private_child(self, Head(path))
         IN  IF ~c.ok THEN Err(c.err) ELSE derive_private_path(c.val, Tail(path))

RECURSIVE derive_public_path(_, _)
derive_public_path(self, path) ==
    IF path = <<>> THEN Ok(self)
    ELSE LET c == derive_public_child(self, Head(path))
         IN  IF ~c.ok THEN Err(c.err) ELSE derive_public_path(c.val, Tail(path))

is_private_ancestor_of_own_key(self, other) ==
    LET p == path_to_descendant(self, other)
    IN  IF p.some
        THEN LET descendant == derive_private_path(self, p.path)
             IN  IF ~descendant.ok THEN Err(descendant.err)
                 ELSE Ok(derive_pubkey(self.xpriv.privkey) = other.xpub.pubkey)
        ELSE Ok(FALSE)

is_private_ancestor_of_unrelated_err(self, other) ==
    LET p == path_to_descendant(self, other)
    IN  IF p.some
        THEN LET descendant == derive_private_path(self, p.path)
             IN  IF ~descendant.ok THEN Err(descendant.err)
                 ELSE Ok(derive_pubkey(descendant.val.xpriv.privkey) = other.xpub.pubkey)
        ELSE Err("NoPathRelation")

is_private_ancestor_of(self, other) ==
    LET p == path_to_descendant(self, other)
    IN  IF p.some
        THEN LET descendant == derive_private_path(self, p.path)
             IN  IF ~descendant.ok THEN Err(descendant.err)
                 ELSE Ok(derive_pubkey(descendant.val.xpriv.privkey) = other.xpub.pubkey)
        ELSE Ok(FALSE)

is_public_ancestor_of_lenient(self, other) ==
    LET p == path_to_descendant(self, other)
    IN  IF p.some
        THEN LET descendant == derive_public_path(self, p.path)
             IN  IF ~descendant.ok THEN Ok(FALSE)
                 ELSE Ok(descendant.val.xpub.pubkey = other.xpub.pubkey)
        ELSE Ok(FALSE)

is_public_ancestor_of(self, other) ==
    LET p == path_to_descendant(self, other)
    IN  IF p.some
        THEN LET descendant == derive_public_path(self, p.path)
             IN  IF ~descendant.ok THEN Err(descendant.err)
                 ELSE Ok(descendant.val.xpub.pubkey = other.xpub.pubkey)
        ELSE Ok(FALSE)

(* ------------------------------ inputs -------------------------------- *)

SeedLens == (MinSeedLen - SeedSlack) .. (MinSeedLen + SeedSlack)

\* seeds: zero bytes followed by one free byte
SeedsOfLen(n) == {[i \in 1 .. n |-> IF i = n THEN b ELSE 0] : b \in Bytes}

Seeds == UNION {SeedsOfLen(n) : n \in SeedLens}

HmacKeys == {SEED, <<2, 1>>}

HintArgs == Hints \cup {NoHint}

Indices == {0, 1, BIP32_HARDEN}

None == [none |-> TRUE]

\* a master node wrapped with the empty path
Wrap(xpriv) == [xpriv |-> xpriv, derivation |-> <<>>]

PubOf(k) == to_derived_xpub(k).val

\* a derived public key with a purported path: the key of x, the path of y
Purported(x, y) == [xpub |-> x.xpub, derivation |-> y.derivation]

KnownPubs ==
    (IF priv = None THEN {} ELSE {PubOf(root), PubOf(priv)})
        \cup (IF pub = None THEN {} ELSE {pbase, pub})

KnownPrivs == IF priv = None THEN {} ELSE {root, priv}

\* the keys handed to an ancestor check as `other`: the known public keys,
\* and the two chains' keys with each other's path
Others ==
    KnownPubs \cup (IF pub = None THEN {}
                    ELSE {Purported(pub, PubOf(priv)), Purported(PubOf(priv), pub)})

\* the keys an ancestor check is asked about as `self`
PubAncestors ==
    KnownPubs \cup (IF pub = None THEN {} ELSE {Purported(pub, pbase)})

\* the seeds the derivation sessions start from
SessionSeeds == SeedsOfLen(MinSeedLen)

(* --------------------------- specification ---------------------------- *)

Init ==
    /\ root = None
    /\ priv = None
    /\ pbase = None
    /\ pub = None
    /\ calls = <<>>
    /\ pcalls = <<>>
    /\ last = [op |-> "init"]

\* a new master node starts a new session with the empty path
Install(res) ==
    IF res.ok
    THEN /\ root' = Wrap(res.val)
         /\ priv' = Wrap(res.val)
         /\ pbase' = None
         /\ pub' = None
         /\ calls' = <<>>
         /\ pcalls' = <<>>
    ELSE UNCHANGED <<root, priv, pbase, pub, calls, pcalls>>

CustomMasterNode(hmac_key, data, hint) ==
    /\ last' = [op |-> "custom_master_node", hmac_key |-> hmac_key,
                data |-> data, hint |-> hint,
                res |-> custom_master_node(hmac_key, data, hint)]
    /\ Install(custom_master_node(hmac_key, data, hint))

RootFromSeed(data, hint) ==
    /\ last' = [op |-> "root_from_seed", hmac_key |-> SEED,
                data |-> data, hint |-> hint,
                res |-> root_from_seed(data, hint)]
    /\ Install(root_from_seed(data, hint))

DerivePrivateChild(index) ==
    /\ priv # None
    /\ LET res == derive_private_child(priv, index)
       IN  /\ last' = [op |-> "derive_private_child", self |-> priv,
                       index |-> index, res |-> res]
           /\ IF res.ok
              THEN priv' = res.val /\ calls' = Append(calls, index)
              ELSE UNCHANGED <<priv, calls>>
    /\ UNCHANGED <<root, pbase, pub, pcalls>>

ToDerivedXPub ==
    /\ priv # None
    /\ LET res == to_derived_xpub(priv)
       IN  /\ last' = [op |-> "to_derived_xpub", self |-> priv, res |-> res]
           /\ IF res.ok
              THEN pbase' = res.val /\ pub' = res.val /\ pcalls' = <<>>
              ELSE UNCHANGED <<pbase, pub, pcalls>>
    /\ UNCHANGED <<root, priv, calls>>

DerivePublicChild(index) ==
    /\ pub # None
    /\ LET res == derive_public_child(pub, index)
       IN  /\ last' = [op |-> "derive_public_child", self |-> pub,
                       index |-> index, res |-> res]
           /\ IF res.ok
              THEN pub' = res.val /\ pcalls' = Append(pcalls, index)
              ELSE UNCHANGED <<pub, pcalls>>
    /\ UNCHANGED <<root, priv, pbase, calls>>

IsPrivateAncestorOf(self, other) ==
    /\ last' = [op |-> "is_private_ancestor_of", self |-> self, other |-> other,
                res |-> is_private_ancestor_of(self, other)]
    /\ UNCHANGED <<root, priv, pbase, pub, calls, pcalls>>

IsPublicAncestorOf(self, other) ==
    /\ last' = [op |-> "is_public_ancestor_of", self |-> self, other |-> other,
                res |-> is_public_ancestor_of(self, other)]
    /\ UNCHANGED <<root, priv, pbase, pub, calls, pcalls>>

\* master-node construction over all seeds, HMAC keys and hints, until one
\* call succeeds
NextMaster ==
    \/ \E k \in HmacKeys, s \in Seeds, h \in HintArgs :
          root = None /\ CustomMasterNode(k, s, h)
    \/ \E s \in Seeds, h \in HintArgs : root = None /\ RootFromSeed(s, h)

SpecMaster == Init /\ [][NextMaster]_vars

\* one session: a master node from a boundary-length seed, then derivation
\* and ancestor checks along paths of at most MaxPathLen indices
Next ==
    \/ \E s \in SessionSeeds : root = None /\ RootFromSeed(s, NoHint)
    \/ \E i \in Indices :
          /\ priv # None
          /\ Len(priv.derivation) < MaxPathLen
          /\ DerivePrivateChild(i)
    \/ ToDerivedXPub
    \/ \E i \in Indices :
          /\ pub # None
          /\ Len(pub.derivation) < MaxPathLen
          /\ DerivePublicChild(i)
    \/ \E a \in KnownPrivs, o \in Others : IsPrivateAncestorOf(a, o)
    \/ \E a \in PubAncestors, o \in Others : IsPublicAncestorOf(a, o)

Spec == Init /\ [][Next]_vars

(* ------------------------------- claims -------------------------------- *)

MasterOps == {"custom_master_node", "root_from_seed"}

IsTrue(r) == r.ok /\ r.val = TRUE

IsFalse(r) == r.ok /\ r.val = FALSE

IsHardened(i) == i >= 2 ^ (IndexBits - 1)

HasHardened(p) == \E j \in 1 .. Len(p) : IsHardened(p[j])

NotPrefix(p, q) == Len(p) > Len(q) \/ \E j \in 1 .. Len(p) : p[j] # q[j]

Suffix(p, q) == SubSeq(q, Len(p) + 1, Len(q))

\* the indices of p before its first hardened one
BeforeHardened(p) ==
    LET J == {j \in 1 .. Len(p) : IsHardened(p[j])}
        first == CHOOSE j \in J : \A k \in J : j <= k
    IN  SubSeq(p, 1, first - 1)

\* C1: a master-node call fails with SeedTooShort exactly when the seed is
\* shorter than 16 bytes, whatever the HMAC key and the hint; a seed of exactly
\* 16 bytes is not rejected for its length.
C1_SeedTooShortIffUnder16 ==
    last.op \in MasterOps =>
        ((~last.res.ok /\ last.res.err = "SeedTooShort") <=> Len(last.data) < 16)

C1_Witness ==
    /\ last.op = "root_from_seed"
    /\ last.data = Zeros(16)
    /\ last.res.err # "SeedTooShort"

\* C2: for a seed of at least 16 bytes, a candidate scalar that is all-zero or
\* greater than or equal to the group order (equal included) makes the
\* master-node call fail with InvalidKey.
C2_InvalidKeyOnZeroOrOutOfRange ==
    (/\ last.op \in MasterOps
     /\ Len(last.data) >= 16
     /\ LET cand == FromArray(hmac_and_split(last.hmac_key, last.data).key)
        IN  cand = 0 \/ cand >= GroupOrder)
        => (~last.res.ok /\ last.res.err = "InvalidKey")

\* C3: a successful master-node call returns depth 0, an all-zero parent
\* fingerprint, index 0, the second half of the HMAC output as chain code, the
\* scalar of the first half as private key, and the hint passed in (SegWit
\* when none was passed).
C3_MasterNodeFields ==
    (last.op \in MasterOps /\ last.res.ok) =>
        LET hs == hmac_and_split(last.hmac_key, last.data)
            k == last.res.val
        IN  /\ k.info.depth = 0
            /\ k.info.parent = <<0, 0, 0, 0>>
            /\ k.info.index = 0
            /\ k.info.chain_code = hs.chain_code
            /\ k.privkey = FromArray(hs.key)
            /\ k.info.hint = (IF last.hint = NoHint THEN "SegWit" ELSE last.hint)

C3_Witness ==
    /\ last.op = "root_from_seed"
    /\ last.data = Zeros(16)
    /\ last.hint = NoHint
    /\ last.res.ok
    /\ last.res.val.info.hint = "SegWit"
    /\ last.res.val.info.depth = 0

\* C4: for every reachable private key k and every non-hardened index i, the
\* public child of k's public counterpart is the public counterpart of k's
\* private child (key, chain code, depth, parent fingerprint, index and path);
\* so a public chain and a private chain that followed the same path hold the
\* same public key.
C4_PublicPrivateCommute ==
    priv # None =>
        /\ \A i \in 0 .. (2 ^ IndexBits - 1) :
              ~IsHardened(i) =>
                  LET a == derive_public_child(PubOf(priv), i)
                      b == derive_private_child(priv, i)
                  IN  /\ a.ok = b.ok
                      /\ a.ok => a.val = PubOf(b.val)
                      /\ ~a.ok => a.err = b.err
        /\ (pub # None /\ pub.derivation = priv.derivation) => pub = PubOf(priv)

C4_Witness ==
    /\ priv # None
    /\ pub # None
    /\ pcalls # <<>>
    /\ pub.derivation = priv.derivation
    /\ last.op = "derive_public_child"
    /\ last.res.ok
    /\ last.res.val = PubOf(priv)

\* C6: the master key and the parent of the last step are private ancestors
\* of every key derived from them by successful private steps (hardened or
\* not), and the key a public chain started from and the parent of its last
\* step are public ancestors of every key derived from them by successful
\* public steps.
C6_AncestorOfDerived ==
    /\ priv # None => IsTrue(is_private_ancestor_of(root, PubOf(priv)))
    /\ pub # None => IsTrue(is_public_ancestor_of(pbase, pub))
    /\ (last.op = "derive_private_child" /\ last.res.ok) =>
          IsTrue(is_private_ancestor_of(last.self, PubOf(priv)))
    /\ (last.op = "derive_public_child" /\ last.res.ok) =>
          IsTrue(is_public_ancestor_of(last.self, pub))
    /\ (last.op = "is_private_ancestor_of" /\ last.self = root
            /\ last.other = PubOf(priv)) => IsTrue(last.res)
    /\ (last.op = "is_public_ancestor_of" /\ last.self = pbase
            /\ last.other = pub) => IsTrue(last.res)

C6_Witness ==
    /\ last.op = "is_private_ancestor_of"
    /\ last.self = root
    /\ last.other = PubOf(priv)
    /\ Len(priv.derivation) >= 2
    /\ HasHardened(priv.derivation)
    /\ IsTrue(last.res)

\* C7: when the ancestor's path is not an index-wise prefix of the other
\* key's path, both ancestor checks return false as a successful result,
\* whatever the keys and the indices of the other path.
C7_UnrelatedPathIsFalse ==
    /\ \A a \in KnownPrivs, o \in Others :
          NotPrefix(a.derivation, o.derivation) => IsFalse(is_private_ancestor_of(a, o))
    /\ \A a \in PubAncestors, o \in Others :
          NotPrefix(a.derivation, o.derivation) => IsFalse(is_public_ancestor_of(a, o))
    /\ (last.op \in {"is_private_ancestor_of", "is_public_ancestor_of"}
            /\ NotPrefix(last.self.derivation, last.other.derivation))
          => IsFalse(last.res)

C7_Witness ==
    /\ last.op = "is_private_ancestor_of"
    /\ last.self.derivation = <<0, 1>>
    /\ last.other.derivation = <<0, 0>>
    /\ IsFalse(last.res)

\* C8 as stated: when the ancestor's path is a prefix of the other key's path
\* and the relative path holds a hardened index, is_public_ancestor_of returns
\* the hardened-derivation-unsupported error; a key mismatch along an
\* all-non-hardened relative path returns false.
C8_HardenedAlwaysUnsupportedError ==
    \A a \in PubAncestors, o \in Others :
        ~NotPrefix(a.derivation, o.derivation) =>
            LET rel == Suffix(a.derivation, o.derivation)
                r == is_public_ancestor_of(a, o)
            IN  /\ HasHardened(rel) =>
                      (~r.ok /\ r.err = "HardenedDerivationUnsupported")
                /\ (~HasHardened(rel) /\ derive_public_path(a, rel).ok
                        /\ derive_public_path(a, rel).val.xpub.pubkey # o.xpub.pubkey)
                      => IsFalse(r)

\* C8, amended: with a hardened index in the relative path,
\* is_public_ancestor_of returns an error and never true or false: the
\* hardened-derivation-unsupported error when every step before the first
\* hardened index succeeds, otherwise the error of the first failed step; a
\* key mismatch along an all-non-hardened relative path returns false.
C8_HardenedIsErrorFirstFailure ==
    \A a \in PubAncestors, o \in Others :
        ~NotPrefix(a.derivation, o.derivation) =>
            LET rel == Suffix(a.derivation, o.derivation)
                r == is_public_ancestor_of(a, o)
            IN  /\ HasHardened(rel) =>
                      LET pre == derive_public_path(a, BeforeHardened(rel))
                      IN  /\ ~r.ok
                          /\ pre.ok => r.err = "HardenedDerivationUnsupported"
                          /\ ~pre.ok => r.err = pre.err
                /\ (~HasHardened(rel) /\ derive_public_path(a, rel).ok
                        /\ derive_public_path(a, rel).val.xpub.pubkey # o.xpub.pubkey)
                      => IsFalse(r)

C8_Witness ==
    /\ last.op = "is_public_ancestor_of"
    /\ ~NotPrefix(last.self.derivation, last.other.derivation)
    /\ HasHardened(Suffix(last.self.derivation, last.other.derivation))
    /\ ~last.res.ok
    /\ last.res.err = "InvalidKey"

\* C9: a derived key's path is the sequence of indices of the successful
\* derivation calls, in call order, hardened bits kept; a successful call
\* returns the parent's path with the index appended and leaves the parent as
\* it was, a failed call returns no key and extends no path.
C9_PathIsCallHistory ==
    /\ root # None => root.derivation = <<>>
    /\ priv # None => priv.derivation = calls
    /\ pub # None => pub.derivation = pbase.derivation \o pcalls
    /\ last.op = "derive_private_child" =>
          IF last.res.ok
          THEN /\ priv = last.res.val
               /\ priv.derivation = Append(last.self.derivation, last.index)
               /\ Len(calls) = 1 => last.self = root
          ELSE /\ last.res.val = NoVal
               /\ priv = last.self
    /\ last.op = "derive_public_child" =>
          IF last.res.ok
          THEN /\ pub = last.res.val
               /\ pub.derivation = Append(last.self.derivation, last.index)
               /\ Len(pcalls) = 1 => last.self = pbase
          ELSE /\ last.res.val = NoVal
               /\ pub = last.self

C9_Witness ==
    /\ last.op = "derive_private_child"
    /\ last.res.ok
    /\ calls = <<1, 2 ^ (IndexBits - 1)>>
    /\ priv.derivation = calls

HardenedIndices == {i \in 0 .. (2 ^ IndexBits - 1) : IsHardened(i)}

\* C5: for every private key k and hardened index i, the public derivation
\* from k's public counterpart fails with the hardened-derivation-unsupported
\* error and returns no key (the public chain is left where it was), and the
\* private derivation succeeds unless the tweak or the resulting scalar is
\* invalid.
C5_HardenedPrivateOnly ==
    /\ priv # None =>
          \A i \in HardenedIndices :
              LET a == derive_public_child(PubOf(priv), i)
                  b == derive_private_child(priv, i)
              IN  /\ ~a.ok
                  /\ a.err = "HardenedDerivationUnsupported"
                  /\ a.val = NoVal
                  /\ b.ok \/ b.err = "InvalidKey"
    /\ (last.op = "derive_public_child" /\ IsHardened(last.index)) =>
          /\ ~last.res.ok
          /\ last.res.err = "HardenedDerivationUnsupported"
          /\ last.res.val = NoVal
          /\ pub = last.self
    /\ (last.op = "derive_private_child" /\ IsHardened(last.index)) =>
          last.res.ok \/ last.res.err = "InvalidKey"

C5_Witness ==
    /\ last.op = "derive_private_child"
    /\ IsHardened(last.index)
    /\ last.res.ok
    /\ last.self.xpriv.info.depth >= 1
    /\ derive_public_child(PubOf(last.self), last.index).err
           = "HardenedDerivationUnsupported"

====
